---- MODULE Spec2Model ----
(***************************************************************************)
(* Model of geometry/board.py (class Dartboard) and of the sanity suite of *)
(* main.py.                                                                *)
(*                                                                         *)
(* Numbers.  The program computes in floating point; the model computes    *)
(* the same quantities exactly:                                            *)
(*   - pixel coordinates and radius are integers (main.py passes ints);    *)
(*   - a percentage of config/rings.json is held in tenths of a percent    *)
(*     (94 stands for 9.4), so a ring radius (pct / 100.0) * R is the      *)
(*     exact fraction pct10 * R / 1000, kept in lowest terms;              *)
(*   - angles are held in degrees.  atan2 of two integers is an integer    *)
(*     number of degrees only at multiples of 45, so an angle is held as   *)
(*     its floor in degrees together with a flag telling whether it is     *)
(*     exactly that integer; angle_offset_degrees is an integer.           *)
(***************************************************************************)
EXTENDS Integers, Sequences, FiniteSets, TLC

VARIABLES
    rings_json,   \* the content of config/rings.json read by __init__
    board,        \* the Dartboard object, NoBoard before construction
    call,         \* the method call being made: [op, x, y], NoCall if none
    ret,          \* what that call returned or raised
    tests         \* main.py: the lines printed by the sanity suite so far

vars == <<rings_json, board, call, ret, tests>>

----------------------------------------------------------------------------
(* Bounds of the model *)

\* ring probes lie on the lines y = cy, y = cy + 3 and x = cx, at most
\* MaxCoord from the center
MaxCoord == 22

\* the sector grid is the square |x - cx|, |y - cy| <= MaxGrid
MaxGrid == 7

\* angle offsets are the multiples of 45 degrees up to 45 * MaxOffK (two
\* full turns either way), and 9 degrees (half a sector) either way
MaxOffK == 16

----------------------------------------------------------------------------
(* Program constants *)

\* main.py: OUTPUT_SIZE = 800
OUTPUT_SIZE == 800

\* board.py: sector_width = (2 * math.pi) / 20.0
NumSectors == 20

\* 2 * math.pi, in degrees
FullTurn == 360

SECTOR_NUMBERS ==
    << 20, 1, 18, 4, 13,
       6, 10, 15, 2, 17,
       3, 19, 7, 16, 8,
       11, 14, 9, 12, 5 >>

----------------------------------------------------------------------------
(* Python values *)

None == <<>>
Some(v) == <<v>>

NoBoard == [none |-> TRUE]
NoCall == [op |-> "none", x |-> 0, y |-> 0]
NoRet == [status |-> "none"]

\* the element of a one-element set; Only({ e(v) : v \in {w} }) is e(w)
\* with w computed once
Only(S) == CHOOSE v \in S : TRUE

Abs(n) == IF n < 0 THEN -n ELSE n

Min(a, b) == IF a <= b THEN a ELSE b

RECURSIVE GCD(_, _)
GCD(a, b) == IF b = 0 THEN a ELSE GCD(b, a % b)

\* the fraction n / d (d > 0) in lowest terms
Rat(n, d) ==
    LET g == GCD(Abs(n), d)
    IN  [n |-> n \div g, d |-> d \div g]

RatLe(r, s) == r.n * s.d <= s.n * r.d
RatLt(r, s) == r.n * s.d < s.n * r.d

\* int(n / d) for d > 0: Python's int() truncates toward zero
TruncDiv(n, d) == IF n >= 0 THEN n \div d ELSE -((-n) \div d)

----------------------------------------------------------------------------
(* Dartboard.__init__ *)

\* cfg.get(key, default)
CfgGet(cfg, key, default) == IF key \in DOMAIN cfg THEN cfg[key] ELSE default

\* (cfg[key] / 100.0) * R, the percentage being in tenths of a percent
PctOf(cfg, key, R) == Rat(cfg[key] * R, 1000)

Dartboard(center_x, center_y, radius, cfg) ==
    [ cx |-> center_x,
      cy |-> center_y,
      radius |-> radius,
      angle_offset_degrees |-> CfgGet(cfg, "angle_offset_degrees", 0),
      inner_bull |-> PctOf(cfg, "inner_bull_pct", radius),
      outer_bull |-> PctOf(cfg, "outer_bull_pct", radius),
      triple_inner |-> PctOf(cfg, "triple_inner_pct", radius),
      triple_outer |-> PctOf(cfg, "triple_outer_pct", radius),
      double_inner |-> PctOf(cfg, "double_inner_pct", radius),
      double_outer |-> PctOf(cfg, "double_outer_pct", radius) ]

----------------------------------------------------------------------------
(* Geometry helpers *)

\* distance_from_center squared: dx * dx + dy * dy
Dist2(b, x, y) ==
    LET dx == x - b.cx
        dy == y - b.cy
    IN  dx * dx + dy * dy

\* sqrt(d2) <= r, sqrt(d2) < r for a fraction r
DLe(d2, r) == r.n >= 0 /\ d2 * r.d * r.d <= r.n * r.n
DLt(d2, r) == r.n > 0 /\ d2 * r.d * r.d < r.n * r.n

\* the return statement ring_for_point reaches, 1 to 8 in source order
\* a slip: no test of d > radius, and whatever is left is an outer single
BranchOf_NoMiss(b, d2) ==
    IF DLe(d2, b.inner_bull) THEN 1
    ELSE IF DLe(d2, b.outer_bull) THEN 2
    ELSE IF ~DLt(d2, b.triple_inner) /\ DLe(d2, b.triple_outer) THEN 4
    ELSE IF ~DLt(d2, b.double_inner) /\ DLe(d2, b.double_outer) THEN 5
    ELSE IF DLt(d2, b.triple_inner) THEN 6
    ELSE 7

\* a slip: the two single rings taken for one another
BranchOf_SinglesSwapped(b, d2) ==
    IF DLe(d2, b.inner_bull) THEN 1
    ELSE IF DLe(d2, b.outer_bull) THEN 2
    ELSE IF ~DLe(d2, Rat(b.radius, 1)) THEN 3
    ELSE IF ~DLt(d2, b.triple_inner) /\ DLe(d2, b.triple_outer) THEN 4
    ELSE IF ~DLt(d2, b.double_inner) /\ DLe(d2, b.double_outer) THEN 5
    ELSE IF DLt(d2, b.triple_inner) THEN 7
    ELSE IF DLt(d2, b.double_inner) THEN 6
    ELSE 8

BranchOf(b, d2) ==
    IF DLe(d2, b.inner_bull) THEN 1
    ELSE IF DLe(d2, b.outer_bull) THEN 2
    ELSE IF ~DLe(d2, Rat(b.radius, 1)) THEN 3
    ELSE IF ~DLt(d2, b.triple_inner) /\ DLe(d2, b.triple_outer) THEN 4
    ELSE IF ~DLt(d2, b.double_inner) /\ DLe(d2, b.double_outer) THEN 5
    ELSE IF DLt(d2, b.triple_inner) THEN 6
    ELSE IF DLt(d2, b.double_inner) THEN 7
    ELSE 8

RingBranch(b, x, y) == Only({ BranchOf(b, d2) : d2 \in {Dist2(b, x, y)} })

\* what each return statement of ring_for_point returns
BranchRing ==
    << "INNER BULL", "OUTER BULL", "MISS", "TRIPLE", "DOUBLE",
       "SINGLE_INNER", "SINGLE_OUTER", "MISS" >>

ring_for_point(b, x, y) == BranchRing[RingBranch(b, x, y)]

----------------------------------------------------------------------------
(* math.atan2 in degrees *)

\* floor(10^6 * tan(k degrees)) for k = 0..45, at index k + 1
TanMicro ==
    << 0, 17455, 34920, 52407, 69926, 87488, 105104, 122784, 140540,
       158384, 176326, 194380, 212556, 230868, 249328, 267949, 286745,
       305730, 324919, 344327, 363970, 383864, 404026, 424474, 445228,
       466307, 487732, 509525, 531709, 554309, 577350, 600860, 624869,
       649407, 674508, 700207, 726542, 753554, 781285, 809784, 839099,
       869286, 900404, 932515, 965688, 1000000 >>

\* tan(k degrees) <= p / q, for 0 <= p <= q, q > 0
TanLe(k, p, q) == q * TanMicro[k + 1] <= p * 1000000

\* the largest k in 0..45 with tan(k degrees) <= lo / hi, for lo <= hi
TanFloor(lo, hi) ==
    CHOOSE k \in 0..45 :
        TanLe(k, lo, hi) /\ (k = 45 \/ ~TanLe(k + 1, lo, hi))

\* atan(p / q) in degrees for p, q >= 0 not both 0: its floor and exactness
AtanQ1(p, q) ==
    LET ex == (p = 0) \/ (q = 0) \/ (p = q)
    IN  IF p <= q THEN [fl |-> TanFloor(p, q), ex |-> ex]
        ELSE [fl |-> (IF ex THEN 90 ELSE 89) - TanFloor(q, p), ex |-> ex]

\* an angle a of [0, 90] taken to [90, 180] (x < 0), then to the negative
\* angles (y < 0)
Reflect(a, y, x) ==
    LET fl1 == IF x >= 0 THEN a.fl ELSE (IF a.ex THEN 180 ELSE 179) - a.fl
    IN  [fl |-> IF y >= 0 THEN fl1 ELSE (IF a.ex THEN 0 ELSE -1) - fl1,
         ex |-> a.ex]

\* math.atan2(y, x) in degrees, in (-180, 180]; atan2(0, 0) = 0
Atan2Deg(y, x) ==
    IF y = 0 /\ x = 0 THEN [fl |-> 0, ex |-> TRUE]
    ELSE Only({ Reflect(a, y, x) : a \in {AtanQ1(Abs(y), Abs(x))} })

----------------------------------------------------------------------------
(* Angle -> sector mapping *)

\* if theta < 0: theta += 2 * math.pi; elif theta >= 2 * math.pi: theta -= ...
\* on the floor of theta, which is negative, or 360 and more, when theta is
OneTurn(theta) ==
    IF theta < 0 THEN theta + FullTurn
    ELSE IF theta >= FullTurn THEN theta - FullTurn
    ELSE theta

\* int(theta / sector_width) for the angle whose floor is fl: int() rounds
\* toward zero, so a negative angle is divided from its ceiling
IntSectors(fl, ex) ==
    LET sector_width == FullTurn \div NumSectors
    IN  IF fl >= 0 THEN fl \div sector_width
        ELSE -((-(IF ex THEN fl ELSE fl + 1)) \div sector_width)

\* a slip: atan2(dx, dy), the y axis of the image not turned upward
sector_index_for_point_NoFlip(b, x, y) ==
    LET dx == x - b.cx
        dy == y - b.cy
    IN  Only({ IntSectors(OneTurn(a.fl + b.angle_offset_degrees), a.ex) :
                 a \in {Atan2Deg(dx, dy)} })

sector_index_for_point(b, x, y) ==
    LET dx == x - b.cx
        dy == y - b.cy
    IN  Only({ IntSectors(OneTurn(a.fl + b.angle_offset_degrees), a.ex) :
                 a \in {Atan2Deg(dx, -dy)} })

\* SECTOR_NUMBERS[idx]: a Python list index, negative ones counting from
\* the end, anything else raising IndexError
ListIndex(list, idx) ==
    IF 0 <= idx /\ idx < Len(list)
      THEN [status |-> "ok", value |-> Some(list[idx + 1])]
    ELSE IF -Len(list) <= idx /\ idx < 0
      THEN [status |-> "ok", value |-> Some(list[Len(list) + idx + 1])]
    ELSE [status |-> "IndexError", value |-> None]

number_for_point(b, x, y) ==
    Only({ ListIndex(SECTOR_NUMBERS, idx) :
             idx \in {sector_index_for_point(b, x, y)} })

----------------------------------------------------------------------------
(* Final dart result *)

\* the record a call leaves in ret
Ret(status, trace, branch, ring, idx, number, code, points) ==
    [ status |-> status, trace |-> trace, branch |-> branch, ring |-> ring,
      idx |-> idx, number |-> number, code |-> code, points |-> points ]

\* f"T{number}": the letter followed by the number
Code(letter, number) == <<letter, number>>

\* a slip: the triple ring scored as the double ring
Scored_TripleTwice(br, ring, num) ==
    LET t2 == <<"ring_for_point", "number_for_point">>
        number == num.value[1]
    IN  IF num.status # "ok"
          THEN Ret(num.status, t2, br, "", None, None, None, None)
        ELSE IF ring = "TRIPLE"
          THEN Ret("ok", t2, br, ring, None, Some(number),
                   Code("T", number), Some(2 * number))
        ELSE IF ring = "DOUBLE"
          THEN Ret("ok", t2, br, ring, None, Some(number),
                   Code("D", number), Some(2 * number))
        ELSE Ret("ok", t2, br, ring, None, Some(number),
                 Code("S", number), Some(number))

\* lines 130-153: the record for a ring with a number; num is what
\* number_for_point gave, and its IndexError leaves dart_result_for_point
Scored(br, ring, num) ==
    LET t2 == <<"ring_for_point", "number_for_point">>
        number == num.value[1]
    IN  IF num.status # "ok"
          THEN Ret(num.status, t2, br, "", None, None, None, None)
        ELSE IF ring = "TRIPLE"
          THEN Ret("ok", t2, br, ring, None, Some(number),
                   Code("T", number), Some(3 * number))
        ELSE IF ring = "DOUBLE"
          THEN Ret("ok", t2, br, ring, None, Some(number),
                   Code("D", number), Some(2 * number))
        ELSE Ret("ok", t2, br, ring, None, Some(number),
                 Code("S", number), Some(number))

\* lines 119-130: the record for the ring reached at return statement br
ResultForRing(b, x, y, br) ==
    LET ring == BranchRing[br]
        t1 == <<"ring_for_point">>
    IN  IF ring = "INNER BULL"
          THEN Ret("ok", t1, br, ring, None, None, <<"IB">>, Some(50))
        ELSE IF ring = "OUTER BULL"
          THEN Ret("ok", t1, br, ring, None, None, <<"OB">>, Some(25))
        ELSE IF ring = "MISS"
          THEN Ret("ok", t1, br, ring, None, None, <<"MISS">>, Some(0))
        ELSE Only({ Scored(br, ring, num) :
                      num \in {number_for_point(b, x, y)} })

dart_result_for_point(b, x, y) ==
    Only({ ResultForRing(b, x, y, br) : br \in {RingBranch(b, x, y)} })

----------------------------------------------------------------------------
(* Actions: the methods of Dartboard *)

Construct(Centers, Radii) ==
    /\ board = NoBoard
    /\ \E c \in Centers, radius \in Radii :
          board' = Dartboard(c[1], c[2], radius, rings_json)
    /\ UNCHANGED <<rings_json, call, ret, tests>>

RingForPoint(Pts) ==
    /\ board # NoBoard
    /\ call = NoCall
    /\ \E p \in Pts :
          LET x == board.cx + p[1]
              y == board.cy + p[2]
          IN  /\ call' = [op |-> "ring_for_point", x |-> x, y |-> y]
              /\ ret' = Ret("ok", <<>>, RingBranch(board, x, y),
                            ring_for_point(board, x, y),
                            None, None, None, None)
    /\ UNCHANGED <<rings_json, board, tests>>

SectorIndexForPoint(Pts) ==
    /\ board # NoBoard
    /\ call = NoCall
    /\ \E p \in Pts :
          LET x == board.cx + p[1]
              y == board.cy + p[2]
          IN  /\ call' = [op |-> "sector_index_for_point", x |-> x, y |-> y]
              /\ ret' = Ret("ok", <<>>, 0, "",
                            Some(sector_index_for_point(board, x, y)),
                            None, None, None)
    /\ UNCHANGED <<rings_json, board, tests>>

NumberForPoint(Pts) ==
    /\ board # NoBoard
    /\ call = NoCall
    /\ \E p \in Pts :
          LET x == board.cx + p[1]
              y == board.cy + p[2]
          IN  /\ call' = [op |-> "number_for_point", x |-> x, y |-> y]
              /\ \E num \in {number_for_point(board, x, y)} :
                    ret' = Ret(num.status, <<"sector_index_for_point">>, 0,
                               "", None, num.value, None, None)
    /\ UNCHANGED <<rings_json, board, tests>>

DartResultForPoint(Pts) ==
    /\ board # NoBoard
    /\ call = NoCall
    /\ \E p \in Pts :
          LET x == board.cx + p[1]
              y == board.cy + p[2]
          IN  /\ call' = [op |-> "dart_result_for_point", x |-> x, y |-> y]
              /\ ret' = dart_result_for_point(board, x, y)
    /\ UNCHANGED <<rings_json, board, tests>>

\* the caller takes the result; the object is as before the call
Return ==
    /\ call # NoCall
    /\ call' = NoCall
    /\ ret' = NoRet
    /\ UNCHANGED <<rings_json, board, tests>>

----------------------------------------------------------------------------
(* main.py: the board in warped space, the sanity suite, single-hit mode *)

\* r + k and k - r for a fraction r and an integer k
RatPlus(r, k) == [n |-> r.n + k * r.d, d |-> r.d]
RatFrom(k, r) == [n |-> k * r.d - r.n, d |-> r.d]

\* int(r)
IntOf(r) == TruncDiv(r.n, r.d)

\* h, w = warped.shape[:2]; center_x, center_y = w // 2, h // 2;
\* radius = min(center_x, center_y); board = Dartboard(...)
MainBoard ==
    /\ board = NoBoard
    /\ LET w == OUTPUT_SIZE
           h == OUTPUT_SIZE
           center_x == w \div 2
           center_y == h \div 2
           radius == Min(center_x, center_y)
       IN  board' = Dartboard(center_x, center_y, radius, rings_json)
    /\ UNCHANGED <<rings_json, call, ret, tests>>

\* a slip: triple_inner + 5 for triple_inner - 5
TestPoints_InnerPlus5(b) ==
    LET inner == RatPlus(b.triple_inner, 5)
        outer == RatPlus(b.triple_outer, 5)
    IN  << [name |-> "TOP wedge, INNER single",
            x |-> b.cx, y |-> IntOf(RatFrom(b.cy, inner))],
           [name |-> "RIGHT wedge, INNER single",
            x |-> IntOf(RatPlus(inner, b.cx)), y |-> b.cy],
           [name |-> "BOTTOM wedge, INNER single",
            x |-> b.cx, y |-> IntOf(RatPlus(inner, b.cy))],
           [name |-> "LEFT wedge, INNER single",
            x |-> IntOf(RatFrom(b.cx, inner)), y |-> b.cy],
           [name |-> "TOP wedge, OUTER single",
            x |-> b.cx, y |-> IntOf(RatFrom(b.cy, outer))],
           [name |-> "RIGHT wedge, OUTER single",
            x |-> IntOf(RatPlus(outer, b.cx)), y |-> b.cy],
           [name |-> "BOTTOM wedge, OUTER single",
            x |-> b.cx, y |-> IntOf(RatPlus(outer, b.cy))],
           [name |-> "LEFT wedge, OUTER single",
            x |-> IntOf(RatFrom(b.cx, outer)), y |-> b.cy] >>

\* the list `tests`: four points 5 px inside the triple ring, four points
\* 5 px outside it, above, right of, below and left of the center
TestPoints(b) ==
    LET inner == RatPlus(b.triple_inner, -5)
        outer == RatPlus(b.triple_outer, 5)
    IN  << [name |-> "TOP wedge, INNER single",
            x |-> b.cx, y |-> IntOf(RatFrom(b.cy, inner))],
           [name |-> "RIGHT wedge, INNER single",
            x |-> IntOf(RatPlus(inner, b.cx)), y |-> b.cy],
           [name |-> "BOTTOM wedge, INNER single",
            x |-> b.cx, y |-> IntOf(RatPlus(inner, b.cy))],
           [name |-> "LEFT wedge, INNER single",
            x |-> IntOf(RatFrom(b.cx, inner)), y |-> b.cy],
           [name |-> "TOP wedge, OUTER single",
            x |-> b.cx, y |-> IntOf(RatFrom(b.cy, outer))],
           [name |-> "RIGHT wedge, OUTER single",
            x |-> IntOf(RatPlus(outer, b.cx)), y |-> b.cy],
           [name |-> "BOTTOM wedge, OUTER single",
            x |-> b.cx, y |-> IntOf(RatPlus(outer, b.cy))],
           [name |-> "LEFT wedge, OUTER single",
            x |-> IntOf(RatFrom(b.cx, outer)), y |-> b.cy] >>

\* for name, (x, y) in tests: res = board.dart_result_for_point(x, y)
TestLine(b, i) ==
    Only({ [name |-> t.name, x |-> t.x, y |-> t.y,
            res |-> dart_result_for_point(b, t.x, t.y)] :
             t \in {TestPoints(b)[i]} })

\* if args.print_tests: the loop over `tests`; a call that raises ends it
PrintTests ==
    /\ board # NoBoard
    /\ tests = <<>>
    /\ \E lines \in {[i \in 1..Len(TestPoints(board)) |-> TestLine(board, i)]} :
          LET raising == {i \in 1..Len(lines) : lines[i].res.status # "ok"}
              last == IF raising = {} THEN Len(lines)
                      ELSE CHOOSE i \in raising : \A j \in raising : i <= j
          IN  tests' = SubSeq(lines, 1, last)
    /\ UNCHANGED <<rings_json, board, call, ret>>

\* else: x, y = args.x, args.y; res = board.dart_result_for_point(x, y)
SingleHit(Xs, Ys) ==
    /\ board # NoBoard
    /\ call = NoCall
    /\ \E x \in Xs, y \in Ys :
          /\ call' = [op |-> "dart_result_for_point", x |-> x, y |-> y]
          /\ ret' = dart_result_for_point(board, x, y)
    /\ UNCHANGED <<rings_json, board, tests>>

----------------------------------------------------------------------------
(* Contents of config/rings.json *)

Rings(ib, ob, ti, to, di, do) ==
    [ inner_bull_pct |-> ib, outer_bull_pct |-> ob,
      triple_inner_pct |-> ti, triple_outer_pct |-> to,
      double_inner_pct |-> di, double_outer_pct |-> do ]

RingsAt(ib, ob, ti, to, di, do, off) ==
    [ inner_bull_pct |-> ib, outer_bull_pct |-> ob,
      triple_inner_pct |-> ti, triple_outer_pct |-> to,
      double_inner_pct |-> di, double_outer_pct |-> do,
      angle_offset_degrees |-> off ]

\* 10, 20, 50, 60, 90, 100 percent with every ring moved by -10, 0 or +10
\* and no angle_offset_degrees key; the unmoved rings at three offsets;
\* the outer bull beyond the triple ring, the triple ring beyond the double
\* ring, a negative percentage
RingCfgs ==
    LET S == {-100, 0, 100}
    IN  { Rings(100 + a, 200 + b, 500 + c, 600 + d, 900 + e, 1000 + f) :
            a \in S, b \in S, c \in S, d \in S, e \in S, f \in S }
          \cup { RingsAt(100, 200, 500, 600, 900, 1000, off) :
                   off \in {-90, 9, 360} }
          \cup { Rings(100, 500, 200, 600, 900, 1000),
                 Rings(100, 200, 500, 900, 600, 1000),
                 Rings(-50, 200, 500, 600, 900, 1000) }

Offsets == { 45 * k : k \in -MaxOffK..MaxOffK } \cup {-9, 9}

\* the measures of a standard board (3.7, 9.4, 58.2, 62.9, 95.3, 100
\* percent of the outer double edge) at every offset
SectorCfgs ==
    { RingsAt(37, 94, 582, 629, 953, 1000, off) : off \in Offsets }
      \cup { Rings(37, 94, 582, 629, 953, 1000) }

\* a standard board whose triple ring starts 1.0 to 1.6 percent (4 to
\* 6.4 px of 400) after the outer bull, or at 58.2, and whose double ring
\* starts 1.2 to 1.8 percent after the triple ring, or at 95.3
SuiteCfgs ==
    { RingsAt(37, 94, ti, 629, di, 1000, off) :
        ti \in {94 + k : k \in 10..16} \cup {582},
        di \in {629 + k : k \in 12..18} \cup {953},
        off \in {-9, 0, 9} }

----------------------------------------------------------------------------
(* Inputs *)

\* relative to the center
RingProbes ==
    { <<x, y>> : x \in -MaxCoord..MaxCoord, y \in {0, 3} }
      \cup { <<0, y>> : y \in -MaxCoord..MaxCoord }

SectorGrid == { <<x, y>> : x \in -MaxGrid..MaxGrid, y \in -MaxGrid..MaxGrid }

FarPoints == { <<50, 50>>, <<-50, 50>>, <<0, -60>>, <<-60, 0>> }

SectorPts == SectorGrid \cup FarPoints

----------------------------------------------------------------------------
(* Specifications *)

Init ==
    /\ rings_json \in SectorCfgs
    /\ board = NoBoard
    /\ call = NoCall
    /\ ret = NoRet
    /\ tests = <<>>

Next ==
    \/ Construct({<<0, 0>>, <<3, -2>>}, {10})
    \/ RingForPoint(SectorPts)
    \/ SectorIndexForPoint(SectorPts)
    \/ NumberForPoint(SectorPts)
    \/ DartResultForPoint(SectorPts)
    \/ Return

Spec == Init /\ [][Next]_vars

\* ring classification over many calibrations
InitRings ==
    /\ rings_json \in RingCfgs
    /\ board = NoBoard
    /\ call = NoCall
    /\ ret = NoRet
    /\ tests = <<>>

NextRings ==
    \/ Construct({<<0, 0>>}, {0, 20})
    \/ RingForPoint(RingProbes)
    \/ DartResultForPoint(RingProbes)
    \/ Return

SpecRings == InitRings /\ [][NextRings]_vars

\* main.py
InitMain ==
    /\ rings_json \in SuiteCfgs
    /\ board = NoBoard
    /\ call = NoCall
    /\ ret = NoRet
    /\ tests = <<>>

NextMain ==
    \/ MainBoard
    \/ PrintTests
    \/ SingleHit({0, 400, 430, 640, 800}, {0, 150, 400, 780})
    \/ Return

SpecMain == InitMain /\ [][NextMain]_vars

----------------------------------------------------------------------------
(* What the claims speak of *)

Zero == [n |-> 0, d |-> 1]

\* 0 < inner_bull <= outer_bull <= triple_inner <= triple_outer
\*   <= double_inner <= double_outer <= radius
OrderingInvariant(b) ==
    /\ RatLt(Zero, b.inner_bull)
    /\ RatLe(b.inner_bull, b.outer_bull)
    /\ RatLe(b.outer_bull, b.triple_inner)
    /\ RatLe(b.triple_inner, b.triple_outer)
    /\ RatLe(b.triple_outer, b.double_inner)
    /\ RatLe(b.double_inner, b.double_outer)
    /\ RatLe(b.double_outer, Rat(b.radius, 1))

\* the ordering invariant with every ring radius strictly above the last
NonDegenerate(b) ==
    /\ OrderingInvariant(b)
    /\ RatLt(b.inner_bull, b.outer_bull)
    /\ RatLt(b.outer_bull, b.triple_inner)
    /\ RatLt(b.triple_inner, b.triple_outer)
    /\ RatLt(b.triple_outer, b.double_inner)
    /\ RatLt(b.double_inner, b.double_outer)

PctKeys ==
    << "inner_bull_pct", "outer_bull_pct", "triple_inner_pct",
       "triple_outer_pct", "double_inner_pct", "double_outer_pct" >>

\* what section 4.1 of the specification accepts: radius > 0, every
\* percentage in [0, 100] (tenths: [0, 1000]), the rings in order
ValidConfiguration(cfg, radius) ==
    /\ radius > 0
    /\ \A i \in 1..6 : cfg[PctKeys[i]] >= 0 /\ cfg[PctKeys[i]] <= 1000
    /\ cfg[PctKeys[1]] > 0
    /\ \A i \in 1..5 : cfg[PctKeys[i]] <= cfg[PctKeys[i + 1]]

Beyond(b, x, y) == Dist2(b, x, y) > b.radius * b.radius

\* the clockwise angle of (x, y) from straight up, in degrees: floor, exact
ClockwiseFromUp(b, x, y) == Atan2Deg(x - b.cx, b.cy - y)

RingRank(ring) ==
    CASE ring = "INNER BULL" -> 1
      [] ring = "OUTER BULL" -> 2
      [] ring = "SINGLE_INNER" -> 3
      [] ring = "TRIPLE" -> 4
      [] ring = "SINGLE_OUTER" -> 5
      [] ring = "DOUBLE" -> 6
      [] ring = "MISS" -> 7

AllRings ==
    { "INNER BULL", "OUTER BULL", "SINGLE_INNER", "TRIPLE", "SINGLE_OUTER",
      "DOUBLE", "MISS" }

Range(f) == { f[i] : i \in DOMAIN f }

----------------------------------------------------------------------------
(* C1 *)

\* C1: a board model exists only for a valid configuration: radius > 0,
\* every percentage in [0, 100], the rings in order (construction fails
\* otherwise)
C1_InvalidConfigurationRejected ==
    board # NoBoard => ValidConfiguration(rings_json, board.radius)

----------------------------------------------------------------------------
(* C2, C3, C8: the sector of a point at any angle offset *)

\* C2: dart_result_for_point returns a score record for every point and
\* every angle offset; it never raises
C2_DartResultNeverRaises ==
    call.op = "dart_result_for_point" => ret.status = "ok"

\* C3: sector_index_for_point returns an index in 0..19 for every point and
\* every angle offset
C3_SectorIndexInRange ==
    call.op = "sector_index_for_point" =>
        ret.idx[1] >= 0 /\ ret.idx[1] <= NumSectors - 1

\* C8: the number of a point is the same with the angle offset one full
\* turn more and one full turn less
C8_FullTurnInvariant ==
    call.op = "number_for_point" =>
        \A turn \in {-FullTurn, FullTurn} :
            LET other == [board EXCEPT !.angle_offset_degrees = @ + turn]
                num == number_for_point(other, call.x, call.y)
            IN  num.status = ret.status /\ num.value = ret.number

----------------------------------------------------------------------------
(* C4: the sectors at zero offset *)

\* C4 as amended: with zero angle offset, index k is the sector that starts
\* k sector widths clockwise from straight up: a point whose clockwise
\* angle from straight up is in [18k, 18k + 18) degrees has index k and
\* number SECTOR_NUMBERS[k]; number 20 is [0, 18), and the 18 degrees
\* counter-clockwise of straight up are index 19, number 5
C4_IndexZeroStartsAtStraightUp ==
    (/\ call.op \in {"sector_index_for_point", "number_for_point"}
     /\ board.angle_offset_degrees = 0) =>
        LET a == ClockwiseFromUp(board, call.x, call.y)
            k == (a.fl % FullTurn) \div (FullTurn \div NumSectors)
        IN  IF call.op = "sector_index_for_point"
              THEN ret.idx = Some(k)
              ELSE ret.status = "ok" /\ ret.number = Some(SECTOR_NUMBERS[k + 1])

\* a point 8 degrees counter-clockwise of straight up has number 5
C4_Witness ==
    /\ call.op = "number_for_point"
    /\ board.angle_offset_degrees = 0
    /\ ClockwiseFromUp(board, call.x, call.y) = [fl |-> -9, ex |-> FALSE]
    /\ ret.number = Some(5)

\* C4 as claimed: with zero angle offset, index k is the sector centred k
\* sector widths clockwise from straight up, so that a point within 9
\* degrees of straight up on either side has number 20
C4_IndexZeroCentredOnStraightUp ==
    (/\ call.op = "number_for_point"
     /\ board.angle_offset_degrees = 0) =>
        LET a == ClockwiseFromUp(board, call.x, call.y)
            half == (FullTurn \div NumSectors) \div 2
            k == ((a.fl + half) % FullTurn) \div (FullTurn \div NumSectors)
        IN  ret.status = "ok" /\ ret.number = Some(SECTOR_NUMBERS[k + 1])

----------------------------------------------------------------------------
(* C5, C6, C10: the ring of a point *)

\* C5: on a board whose radii satisfy the ordering invariant, a point
\* farther than radius from the center gives code MISS, ring MISS, 0 points
\* and no number, at any angle and any angle offset
C5_BeyondRadiusIsMiss ==
    (/\ call.op = "dart_result_for_point"
     /\ OrderingInvariant(board)
     /\ Beyond(board, call.x, call.y)) =>
        /\ ret.status = "ok"
        /\ ret.code = <<"MISS">>
        /\ ret.ring = "MISS"
        /\ ret.points = Some(0)
        /\ ret.number = None

\* a miss off the axes, on a board turned by a quarter turn
C5_Witness ==
    /\ call.op = "dart_result_for_point"
    /\ OrderingInvariant(board)
    /\ Beyond(board, call.x, call.y)
    /\ call.x # board.cx /\ call.y # board.cy
    /\ board.angle_offset_degrees = -90
    /\ ret.code = <<"MISS">>

\* C6: on a board with strictly increasing ring radii, a point no nearer
\* the center than another never has a ring that comes before the other's in
\* the order INNER BULL, OUTER BULL, SINGLE_INNER, TRIPLE, SINGLE_OUTER,
\* DOUBLE, MISS, and each of the seven rings is the ring of some point
C6_RingsMonotonicInDistance ==
    (/\ call.op = "ring_for_point"
     /\ NonDegenerate(board)) =>
        /\ \A p \in RingProbes :
              LET x == board.cx + p[1]
                  y == board.cy + p[2]
              IN  Dist2(board, x, y) >= Dist2(board, call.x, call.y) =>
                     RingRank(ring_for_point(board, x, y)) >= RingRank(ret.ring)
        /\ \A ring \in AllRings :
              \E p \in RingProbes :
                 ring_for_point(board, board.cx + p[1], board.cy + p[2]) = ring

\* an outer single on a board with strictly increasing radii
C6_Witness ==
    /\ call.op = "ring_for_point"
    /\ NonDegenerate(board)
    /\ ret.ring = "SINGLE_OUTER"
    /\ call.y # board.cy

\* C10: on a board whose radii satisfy the ordering invariant,
\* ring_for_point never reaches its last return statement
C10_FallbackUnreachable ==
    (/\ call.op = "ring_for_point"
     /\ OrderingInvariant(board)) =>
        ret.branch # Len(BranchRing)

----------------------------------------------------------------------------
(* C7: the score record *)

----------------------------------------------------------------------------
(* C9: the sanity suite *)

\* zero angle offset, radii in order, outer_bull < triple_inner - 5 and
\* triple_outer + 6 < double_inner
C9_Precondition ==
    /\ board # NoBoard
    /\ board.angle_offset_degrees = 0
    /\ OrderingInvariant(board)
    /\ RatLt(board.outer_bull, RatPlus(board.triple_inner, -5))
    /\ RatLt(RatPlus(board.triple_outer, 6), board.double_inner)

\* C9: with zero angle offset and radii that satisfy the ordering invariant
\* with outer_bull < triple_inner - 5 and triple_outer + 6 < double_inner,
\* the suite's first point (above the center, triple_inner - 5 away, cut to
\* whole pixels) is a SINGLE_INNER of number 20, SECTOR_NUMBERS[0], and its
\* fifth point (above the center, triple_outer + 5 away) a SINGLE_OUTER of 20
C9_SuiteTopWedgeSingles ==
    (tests # <<>> /\ C9_Precondition) =>
        /\ Len(tests) = 8
        /\ tests[1].x = board.cx /\ tests[1].y < board.cy
        /\ tests[1].res.ring = "SINGLE_INNER"
        /\ tests[1].res.number = Some(SECTOR_NUMBERS[1])
        /\ tests[1].res.number = Some(20)
        /\ tests[5].x = board.cx /\ tests[5].y < tests[1].y
        /\ tests[5].res.ring = "SINGLE_OUTER"
        /\ tests[5].res.number = Some(20)

\* the suite has run on a board whose triple ring starts less than 6 px
\* after the outer bull and whose double ring starts less than 7 px after
\* the triple ring
C9_Witness ==
    /\ tests # <<>>
    /\ C9_Precondition
    /\ RatLt(RatPlus(board.triple_inner, -6), board.outer_bull)
    /\ RatLt(board.double_inner, RatPlus(board.triple_outer, 7))
    /\ tests[1].res.code = <<"S", 20>>
    /\ tests[5].res.code = <<"S", 20>>

====
